---- MODULE Spec2Model ----
(***************************************************************************)
(* Model of the `changed` crate: Cd<T>, a wrapper that owns one value and  *)
(* a flag recording calls to deref_mut (src/src/lib.rs).                   *)
(*                                                                         *)
(* A caller owns two containers, c and d, so that each can be the clone of *)
(* the other.  Each container is either not yet                            *)
(* constructed, live, or moved out by take.  The mutable views returned by *)
(* deref_mut and silent_mut are modelled in two phases: the call hands out *)
(* the view, the caller then writes through it any number of times and     *)
(* finally lets the borrow end.  While a view of a container is out, the   *)
(* exclusive borrow `&mut` forbids every other operation on it.            *)
(***************************************************************************)
EXTENDS Integers, FiniteSets, Sequences, TLC

\* ---- bounds ----
MaxVal == 1          \* values of T are 0..MaxVal
MaxRun == 3          \* a run of repeated calls is counted up to here

Val == 0..MaxVal
\* the containers of the caller
Cds == {"c", "d"}

\* no container
None == "none"

\* T::default() for the integer type of the crate's examples
DefaultT == 0

VARIABLES
    cd,         \* cd[s]: the struct Cd { data, changed } of container s
    life,       \* life[s]: "unborn", "live" or "moved"
    view,       \* view[s]: the mutable view of s that is out, if any
    last,       \* the most recent operation, its input and its result
    run,        \* the current run of repeated calls of one operation on one container
    mutSince,   \* ghost: deref_mut or silent_mut called since creation/reset
    dirtySince, \* ghost: created with flag true, or deref_mut called, since creation/reset
    base,       \* ghost: the data at construction or at the latest reset
    written,    \* ghost: the constructed value or the last value written through a view
    silentClean, \* ghost: written through a silent_mut view taken with the flag false
    silentUsed, \* ghost: silent_mut has been called on some container
    cloneOf     \* ghost: cloneOf[t] is the container that t was cloned from, if any

vars == <<cd, life, view, last, run, mutSince, dirtySince, base, written, silentClean, silentUsed, cloneOf>>

\* ---- the code of Cd<T> as operators on the struct ----
\* A constructor gives the new struct.  A method on `&self` or `&mut self`
\* gives the struct as the call leaves it (self) and, where it returns a
\* value, that value (ret).  deref_mut and silent_mut return a view of the
\* field data; the writes through it are made by store.

new(data) == [data |-> data, changed |-> FALSE]

new_true_unset(data) == [data |-> data, changed |-> FALSE]

new_true(data) == [data |-> data, changed |-> TRUE]

reset_wipe(this) == [data |-> DefaultT, changed |-> FALSE]

reset_toggle(this) == [this EXCEPT !.changed = ~this.changed]

reset(this) == [this EXCEPT !.changed = FALSE]

take_stale(this) == DefaultT

take(this) == this.data

changed_clears(this) == [self |-> [this EXCEPT !.changed = FALSE], ret |-> this.changed]

changed(this) == [self |-> this, ret |-> this.changed]

silent_mut_marks(this) == [this EXCEPT !.changed = TRUE]

silent_mut_clears(this) == [this EXCEPT !.changed = FALSE]

silent_mut(this) == this

deref_marks(self) == [self |-> [self EXCEPT !.changed = TRUE], ret |-> self.data]

deref(self) == [self |-> self, ret |-> self.data]

deref_mut_noflag(self) == self

deref_mut_toggle(self) == [self EXCEPT !.changed = ~self.changed]

deref_mut(self) == [self EXCEPT !.changed = TRUE]

\* a write of v through a view `&mut self.data`
store(self, v) == [self EXCEPT !.data = v]

default == new(DefaultT)

\* T::clone for a value type is a deep copy
CloneT(v) == v

clone_fresh(self) == [self |-> self, ret |-> [data |-> CloneT(self.data), changed |-> FALSE]]

clone(self) == [self |-> self, ret |-> [data |-> CloneT(self.data), changed |-> self.changed]]

\* ---- bookkeeping ----

\* the contents of a slot that holds no container
Dead == [data |-> DefaultT, changed |-> FALSE]

\* a mutable view: which call handed it out, whether the flag was false before
\* that call (clean), and whether the caller has written through it (wrote)
NoView == [kind |-> "none", wrote |-> FALSE, clean |-> FALSE]

\* an operation on container s: its input arg, the struct before it (pre), the
\* value (ret) or the boolean (flag) it returns, the container it creates
\* (dst), the view it hands out, writes through or ends (view)
Op(op, s, dst, arg, pre, ret, flag, vw) ==
    [op |-> op, slot |-> s, dst |-> dst, arg |-> arg,
     pre |-> pre, ret |-> ret, flag |-> flag, view |-> vw]

NoOp == Op("init", None, None, 0, Dead, 0, FALSE, NoView)

\* n calls in a row of last.op on last.slot; snap is the struct after the first
NoRun == [n |-> 0, snap |-> Dead]

\* the run after one more call of op on s that leaves the struct as c
Repeat(op, s, c) ==
    IF last.op = op /\ last.slot = s
    THEN [run EXCEPT !.n = IF run.n < MaxRun THEN run.n + 1 ELSE run.n]
    ELSE [n |-> 1, snap |-> c]

Usable_stale(s) == life[s] # "unborn"

\* a container can be used when it has been constructed and not moved out by take
Usable(s) == life[s] = "live"

\* `&self` and `&mut self` need that no mutable view of s is out
Free(s) == Usable(s) /\ view[s].kind = "none"

Init ==
    /\ cd = [s \in Cds |-> Dead]
    /\ life = [s \in Cds |-> "unborn"]
    /\ view = [s \in Cds |-> NoView]
    /\ last = NoOp
    /\ run = NoRun
    /\ mutSince = [s \in Cds |-> FALSE]
    /\ dirtySince = [s \in Cds |-> FALSE]
    /\ base = [s \in Cds |-> DefaultT]
    /\ written = [s \in Cds |-> DefaultT]
    /\ silentClean = [s \in Cds |-> FALSE]
    /\ silentUsed = FALSE
    /\ cloneOf = [s \in Cds |-> None]

\* a container comes into existence in slot s with contents c; the caller asked
\* for the value v and for the initial flag born
Create(s, c, v, born) ==
    /\ life[s] = "unborn"
    /\ cd' = [cd EXCEPT ![s] = c]
    /\ life' = [life EXCEPT ![s] = "live"]
    /\ mutSince' = [mutSince EXCEPT ![s] = FALSE]
    /\ dirtySince' = [dirtySince EXCEPT ![s] = born]
    /\ base' = [base EXCEPT ![s] = v]
    /\ written' = [written EXCEPT ![s] = v]
    /\ run' = NoRun
    /\ UNCHANGED <<view, silentClean, silentUsed, cloneOf>>

\* let cd = Cd::new(v);
New(s, v) ==
    /\ Create(s, new(v), v, FALSE)
    /\ last' = Op("new", s, None, v, Dead, 0, FALSE, NoView)

\* let cd = Cd::new_true(v);
NewTrue(s, v) ==
    /\ Create(s, new_true(v), v, TRUE)
    /\ last' = Op("new_true", s, None, v, Dead, 0, FALSE, NoView)

\* let cd: Cd<T> = Cd::default();
Default(s) ==
    /\ Create(s, default, DefaultT, FALSE)
    /\ last' = Op("default", s, None, 0, Dead, 0, FALSE, NoView)

\* let d = c.clone();
Clone(s, t) ==
    /\ Free(s)
    /\ life[t] = "unborn"
    /\ cd' = [cd EXCEPT ![s] = clone(cd[s]).self, ![t] = clone(cd[s]).ret]
    /\ life' = [life EXCEPT ![t] = "live"]
    /\ mutSince' = [mutSince EXCEPT ![t] = FALSE]
    /\ dirtySince' = [dirtySince EXCEPT ![t] = cd[s].changed]
    /\ base' = [base EXCEPT ![t] = written[s]]
    /\ written' = [written EXCEPT ![t] = written[s]]
    /\ run' = NoRun
    /\ cloneOf' = [cloneOf EXCEPT ![t] = s]
    /\ last' = Op("clone", s, t, 0, cd[s], 0, FALSE, NoView)
    /\ UNCHANGED <<view, silentClean, silentUsed>>

\* *cd  (a read)
Deref(s) ==
    /\ Free(s)
    /\ cd' = [cd EXCEPT ![s] = deref(cd[s]).self]
    /\ run' = Repeat("deref", s, cd'[s])
    /\ last' = Op("deref", s, None, 0, cd[s], deref(cd[s]).ret, FALSE, NoView)
    /\ UNCHANGED <<life, view, mutSince, dirtySince, base, written, silentClean, silentUsed, cloneOf>>

\* Cd::changed(&cd)
Changed(s) ==
    /\ Free(s)
    /\ cd' = [cd EXCEPT ![s] = changed(cd[s]).self]
    /\ run' = Repeat("changed", s, cd'[s])
    /\ last' = Op("changed", s, None, 0, cd[s], 0, changed(cd[s]).ret, NoView)
    /\ UNCHANGED <<life, view, mutSince, dirtySince, base, written, silentClean, silentUsed, cloneOf>>

Reset_shared(s) ==
    /\ Free(s)
    /\ cd' = [t \in Cds |-> IF Usable(t) THEN reset(cd[t]) ELSE cd[t]]
    /\ mutSince' = [mutSince EXCEPT ![s] = FALSE]
    /\ dirtySince' = [dirtySince EXCEPT ![s] = FALSE]
    /\ base' = [base EXCEPT ![s] = cd[s].data]
    /\ silentClean' = [silentClean EXCEPT ![s] = FALSE]
    /\ run' = Repeat("reset", s, cd'[s])
    /\ last' = Op("reset", s, None, 0, cd[s], 0, FALSE, NoView)
    /\ UNCHANGED <<life, view, written, silentUsed, cloneOf>>

\* Cd::reset(&mut cd)
Reset(s) ==
    /\ Free(s)
    /\ cd' = [cd EXCEPT ![s] = reset(cd[s])]
    /\ mutSince' = [mutSince EXCEPT ![s] = FALSE]
    /\ dirtySince' = [dirtySince EXCEPT ![s] = FALSE]
    /\ base' = [base EXCEPT ![s] = cd[s].data]
    /\ silentClean' = [silentClean EXCEPT ![s] = FALSE]
    /\ run' = Repeat("reset", s, cd'[s])
    /\ last' = Op("reset", s, None, 0, cd[s], 0, FALSE, NoView)
    /\ UNCHANGED <<life, view, written, silentUsed, cloneOf>>

\* &mut *cd : the flag is set, then the view is handed out
DerefMut(s) ==
    /\ Free(s)
    /\ cd' = [cd EXCEPT ![s] = deref_mut(cd[s])]
    /\ view' = [view EXCEPT ![s] = [kind |-> "deref_mut", wrote |-> FALSE, clean |-> ~cd[s].changed]]
    /\ mutSince' = [mutSince EXCEPT ![s] = TRUE]
    /\ dirtySince' = [dirtySince EXCEPT ![s] = TRUE]
    /\ silentClean' = [silentClean EXCEPT ![s] = FALSE]
    /\ run' = NoRun
    /\ last' = Op("deref_mut", s, None, 0, cd[s], 0, FALSE, view'[s])
    /\ UNCHANGED <<life, base, written, silentUsed, cloneOf>>

\* whether a call of silent_mut is accepted from a call site that carries an
\* explicit marker (an `unsafe` block, an acknowledgment) or carries none:
\* `pub fn silent_mut(this: &mut Cd<T>)` is a safe function of one argument
silent_mut_callable(marker) == TRUE

\* Cd::silent_mut(&mut cd) : the view is handed out; marker tells whether the
\* call site carries an explicit marker
SilentMut(s, marker) ==
    /\ Free(s)
    /\ silent_mut_callable(marker)
    /\ cd' = [cd EXCEPT ![s] = silent_mut(cd[s])]
    /\ view' = [view EXCEPT ![s] = [kind |-> "silent_mut", wrote |-> FALSE, clean |-> ~cd[s].changed]]
    /\ mutSince' = [mutSince EXCEPT ![s] = TRUE]
    /\ silentClean' = [silentClean EXCEPT ![s] = FALSE]
    /\ silentUsed' = TRUE
    /\ run' = NoRun
    /\ last' = Op("silent_mut", s, None, 0, cd[s], 0, marker, view'[s])
    /\ UNCHANGED <<life, dirtySince, base, written, cloneOf>>

\* the caller writes v through the view of s that is out
Write(s, v) ==
    /\ Usable(s)
    /\ view[s].kind # "none"
    /\ cd' = [cd EXCEPT ![s] = store(cd[s], v)]
    /\ view' = [view EXCEPT ![s].wrote = TRUE]
    /\ written' = [written EXCEPT ![s] = v]
    /\ silentClean' = [silentClean EXCEPT ![s] = view[s].kind = "silent_mut" /\ view[s].clean]
    /\ run' = NoRun
    /\ last' = Op("write", s, None, v, cd[s], 0, FALSE, view'[s])
    /\ UNCHANGED <<life, mutSince, dirtySince, base, silentUsed, cloneOf>>

\* the borrow of the view of s ends
Release(s) ==
    /\ Usable(s)
    /\ view[s].kind # "none"
    /\ view' = [view EXCEPT ![s] = NoView]
    /\ run' = NoRun
    /\ last' = Op("release", s, None, 0, cd[s], 0, FALSE, view[s])
    /\ UNCHANGED <<cd, life, mutSince, dirtySince, base, written, silentClean, silentUsed, cloneOf>>

\* let data = Cd::take(cd); : cd is moved into the call
Take(s) ==
    /\ Free(s)
    /\ cd' = [cd EXCEPT ![s] = Dead]
    /\ life' = [life EXCEPT ![s] = "moved"]
    /\ silentClean' = [silentClean EXCEPT ![s] = FALSE]
    /\ run' = NoRun
    /\ last' = Op("take", s, None, 0, cd[s], take(cd[s]), FALSE, NoView)
    /\ UNCHANGED <<view, mutSince, dirtySince, base, written, silentUsed, cloneOf>>

Next ==
    \/ \E s \in Cds, v \in Val : New(s, v)
    \/ \E s \in Cds, v \in Val : NewTrue(s, v)
    \/ \E s \in Cds : Default(s)
    \/ \E s \in Cds, t \in Cds : Clone(s, t)
    \/ \E s \in Cds : Deref(s)
    \/ \E s \in Cds : Changed(s)
    \/ \E s \in Cds : Reset(s)
    \/ \E s \in Cds : DerefMut(s)
    \/ \E s \in Cds, marker \in BOOLEAN : SilentMut(s, marker)
    \/ \E s \in Cds, v \in Val : Write(s, v)
    \/ \E s \in Cds : Release(s)
    \/ \E s \in Cds : Take(s)

Spec == Init /\ [][Next]_vars

TypeOK ==
    /\ \A s \in Cds : cd[s].data \in Val /\ cd[s].changed \in BOOLEAN
    /\ \A s \in Cds : life[s] \in {"unborn", "live", "moved"}
    /\ \A s \in Cds : view[s].kind \in {"none", "deref_mut", "silent_mut"}
    /\ \A s \in Cds : life[s] # "live" => cd[s] = Dead /\ view[s] = NoView

\* ---- C1 ----
\* C1 as stated: the flag of a live container is true if and only if a
\* mutable-access operation (deref_mut or silent_mut) has occurred since the
\* container was created or since the last reset.
C1_FlagIffMutableAccess ==
    \A s \in Cds : Usable(s) => (cd[s].changed <=> mutSince[s])

\* C1 as amended: the flag of a live container is true if and only if, since
\* the container was created or last reset, deref_mut has been called or no
\* reset has happened and the container was created with the flag true
\* (new_true, or clone of a container whose flag was true).
C1_FlagIffDirty ==
    \A s \in Cds : Usable(s) => (cd[s].changed <=> dirtySince[s])

\* one container created true and never accessed, another silently mutated
\* with the flag still false
C1_Witness ==
    \E s, t \in Cds :
        /\ Usable(s) /\ cd[s].changed /\ ~mutSince[s]
        /\ Usable(t) /\ ~cd[t].changed /\ mutSince[t] /\ silentClean[t]

\* ---- C2 ----
\* C2: when deref_mut is called on a container whose flag is false, the flag
\* is true for as long as the view is out and after the view ends, also when
\* the caller never wrote through the view.
C2_WriteMarksDirty ==
    \A s \in Cds :
        /\ view[s].kind = "deref_mut" /\ view[s].clean => cd[s].changed
        /\ last.op = "release" /\ last.slot = s
             /\ last.view.kind = "deref_mut" /\ last.view.clean => cd[s].changed

C2_Witness ==
    /\ last.op = "release"
    /\ last.view.kind = "deref_mut" /\ last.view.clean /\ ~last.view.wrote
    /\ cd[last.slot].changed
    /\ cd[last.slot].data = base[last.slot]

\* ---- C3 ----
\* C3: after any number of deref calls in a row on a container, its flag and
\* its data are what they were before the first of them, and each call
\* returns that data.
C3_ReadTransparent ==
    last.op = "deref" =>
        /\ cd[last.slot] = last.pre
        /\ cd[last.slot] = run.snap
        /\ last.ret = run.snap.data

C3_Witness ==
    /\ last.op = "deref" /\ run.n = MaxRun
    /\ cd[last.slot].changed /\ cd[last.slot].data # DefaultT

\* ---- C4 ----
\* C4: after reset the flag is false and the data is the value held before
\* the reset.
C4_Reset ==
    last.op = "reset" =>
        /\ cd[last.slot].changed = FALSE
        /\ cd[last.slot].data = last.pre.data

C4_Witness ==
    /\ last.op = "reset" /\ last.pre.changed /\ last.pre.data # DefaultT
    /\ ~cd[last.slot].changed

\* ---- C5 ----
\* C5: when the value of a container whose flag is false is modified through
\* a silent_mut view, the flag is still false, during the borrow and after
\* it, and a following deref returns the modified value.
C5_SilentMutation ==
    \A s \in Cds : silentClean[s] =>
        /\ cd[s].changed = FALSE
        /\ cd[s].data = written[s]
        /\ last.op = "deref" /\ last.slot = s => last.ret = written[s]

C5_Witness ==
    \E s \in Cds :
        /\ silentClean[s] /\ last.op = "deref" /\ last.slot = s
        /\ last.ret # base[s] /\ ~cd[s].changed

\* ---- C6 ----
\* C6: as long as silent_mut has never been called, a live container whose
\* flag is false holds the value it had at construction or at the latest
\* reset, whichever is later.
C6_NoUnknownMutation ==
    \A s \in Cds :
        Usable(s) /\ ~silentUsed /\ ~cd[s].changed => cd[s].data = base[s]

C6_Witness ==
    /\ ~silentUsed /\ last.op = "reset" /\ last.pre.changed
    /\ cd[last.slot].data = base[last.slot] /\ base[last.slot] # DefaultT
    /\ \E t \in Cds : Usable(t) /\ cd[t].changed /\ cd[t].data # base[t]

\* ---- C7 ----
\* C7: right after construction the container holds the value asked for and
\* the flag is false for new and default and true for new_true; default holds
\* the default value of T.
C7_Construction ==
    /\ last.op = "new" => cd[last.slot] = [data |-> last.arg, changed |-> FALSE]
    /\ last.op = "new_true" => cd[last.slot] = [data |-> last.arg, changed |-> TRUE]
    /\ last.op = "default" => cd[last.slot] = [data |-> DefaultT, changed |-> FALSE]
    /\ last.op \in {"new", "new_true", "default"} =>
           ~mutSince[last.slot] /\ view[last.slot] = NoView

C7_Witness ==
    /\ last.op = "new_true" /\ last.arg # DefaultT
    /\ cd[last.slot].changed /\ cd[last.slot].data = last.arg

\* ---- C8 ----
\* C8: right after clone, the copy has the flag and the value of the source,
\* and the source has the flag and the value it had before.
C8_CloneFidelity ==
    last.op = "clone" =>
        /\ cd[last.dst].changed = last.pre.changed
        /\ cd[last.dst].data = last.pre.data
        /\ cd[last.slot] = last.pre

C8_Witness ==
    /\ last.op = "clone" /\ last.pre.changed /\ last.pre.data # DefaultT
    /\ cd[last.dst].changed /\ cd[last.slot].changed

\* ---- C9 ----
\* C9: take returns the constructed value, or the last value written through
\* a deref_mut or silent_mut view, whatever the flag.
C9_TakeReturnsData ==
    last.op = "take" => last.ret = written[last.slot]

C9_Witness ==
    /\ last.op = "take" /\ last.ret # DefaultT
    /\ ~last.pre.changed /\ last.ret # base[last.slot]

\* ---- C10 ----
\* C10: once a container has been moved out by take, no operation on it takes
\* place: it stays moved, nothing of it changes and no later operation has it
\* as its subject or as the source of a clone.
C10_NoUseAfterTake ==
    [][\A s \in Cds : life[s] = "moved" =>
          /\ life'[s] = "moved"
          /\ cd'[s] = cd[s] /\ view'[s] = view[s]
          /\ last' # last => last'.slot # s /\ last'.dst # s]_vars

C10_Witness ==
    \E s \in Cds : life[s] = "moved" /\ last.slot # s /\ last.op = "deref"

\* ---- C11 ----
\* C11: after two or more reset calls in a row on a container, its flag and
\* its data are what they were after the first of them.
C11_ResetIdempotent ==
    last.op = "reset" /\ run.n >= 2 =>
        /\ cd[last.slot] = run.snap
        /\ cd[last.slot] = last.pre

C11_Witness ==
    /\ last.op = "reset" /\ run.n = 2
    /\ cd[last.slot].data # DefaultT /\ ~cd[last.slot].changed
    /\ \E t \in Cds : Usable(t) /\ cd[t].changed

\* ---- C12 ----
\* C12: a call of changed returns the flag and leaves flag and data as they
\* were; calls in a row return the same value and leave the struct as the
\* first call found it.
C12_ChangedIsPure ==
    last.op = "changed" =>
        /\ last.flag = last.pre.changed
        /\ cd[last.slot] = last.pre
        /\ cd[last.slot] = run.snap
        /\ last.flag = run.snap.changed

C12_Witness ==
    /\ last.op = "changed" /\ run.n = MaxRun
    /\ last.flag /\ cd[last.slot].changed /\ cd[last.slot].data # DefaultT

\* ---- C13 ----
\* C13: every call of silent_mut that hands out a view comes from a call site
\* that carries the explicit opt-in marker.
C13_SilentMutNeedsMarker ==
    last.op = "silent_mut" => last.flag = TRUE

\* ---- C14 ----
\* C14: in every step, a deref_mut view that is out after the step has the
\* flag true; while such a view is out the flag stays true, a write through
\* it finds the flag already true, and the only operations on its container
\* are the caller's writes through the view and the end of the borrow (no
\* reset comes between the hand-out and the write).
C14_FlagBeforeView ==
    [][\A s \in Cds :
          /\ view'[s].kind = "deref_mut" => cd'[s].changed
          /\ view[s].kind = "deref_mut" =>
                /\ cd[s].changed /\ cd'[s].changed
                /\ last'.slot = s => last'.op \in {"write", "release"}]_vars

C14_Witness ==
    \E s \in Cds :
        /\ view[s].kind = "deref_mut" /\ view[s].clean /\ view[s].wrote
        /\ last.op = "write" /\ last.slot = s /\ last.pre.changed
        /\ cd[s].changed /\ cd[s].data # base[s]

\* ---- C15 ----
\* C15: a step in which the flag of a container that stays live goes from
\* true to false is a reset of that container; silent_mut, the writes through
\* its view and the end of its borrow leave the flag as it was, true or false.
C15_OnlyResetClears ==
    [][\A s \in Cds :
          /\ Usable(s) /\ life'[s] = "live" /\ cd[s].changed /\ ~cd'[s].changed
                => last'.op = "reset" /\ last'.slot = s
          /\ last'.slot = s /\ (last'.op = "silent_mut" \/ view[s].kind = "silent_mut")
                => cd'[s].changed = cd[s].changed]_vars

C15_Witness ==
    \E s \in Cds :
        /\ view[s].kind = "silent_mut" /\ ~view[s].clean /\ view[s].wrote
        /\ cd[s].changed /\ last.op = "write" /\ last.slot = s

\* ---- C16 ----
\* C16: a live container holds the value it was constructed with or, if a
\* write was made through a deref_mut or silent_mut view, the last value so
\* written, and deref returns that value, whatever reset, changed, deref and
\* clone calls came in between.
C16_DataIsLastWritten ==
    \A s \in Cds : Usable(s) =>
        /\ cd[s].data = written[s]
        /\ last.op = "deref" /\ last.slot = s => last.ret = written[s]

\* a read of a cloned container after a reset: the value differs from the value
\* its untouched clone was made with, so it was written after the clone
C16_Witness ==
    \E s, t \in Cds :
        /\ cloneOf[t] = s /\ Usable(t) /\ ~mutSince[t]
        /\ last.op = "deref" /\ last.slot = s /\ last.ret # cd[t].data
        /\ ~cd[s].changed /\ cd[t].changed /\ ~silentUsed

\* ---- C17 ----
\* C17: when one of the two containers is a clone of the other, a step of an
\* operation on one of them (deref_mut, silent_mut, a write through a view,
\* reset, take, or any other) leaves the flag, the data, the view and the
\* life of the other as they were.
C17_CloneIndependent ==
    [][\A s, t \in Cds :
          /\ s # t /\ (cloneOf[s] = t \/ cloneOf[t] = s)
          /\ last'.slot = t /\ last'.dst # s
          => cd'[s] = cd[s] /\ life'[s] = life[s] /\ view'[s] = view[s]]_vars

\* the source was written, reset and taken after the clone; the clone still
\* holds the flag and the value it was made with
C17_Witness ==
    \E s, t \in Cds :
        /\ cloneOf[t] = s /\ life[s] = "moved" /\ Usable(t)
        /\ last.op = "take" /\ last.slot = s
        /\ last.ret # cd[t].data /\ last.pre.changed # cd[t].changed
        /\ ~mutSince[t] /\ cd[t].data = base[t]
====
